---- MODULE Spec2Model ----
(***************************************************************************)
(* Model of data/generate_custom_dataset.py: the caption normalizer        *)
(* DatasetWrap.clean and the embedding ingestion loop                      *)
(* generate_openai_embeddings (pending-set computation, credential         *)
(* rotation on RateLimitError, per-caption append + commit).               *)
(*                                                                         *)
(* A string is a sequence of one-character strings.                        *)
(***************************************************************************)
EXTENDS Integers, Sequences, FiniteSets, TLC

VARIABLES
    source,      \* the 'caption' column SQLiteDataWrap reads (raw captions)
    db,          \* committed records of the embedding database, in commit order
    staged,      \* records appended but not yet committed (in memory)
    pending,     \* the array caption_loader() returned to the for loop
    idx,         \* position of the for loop in pending (1-based)
    nickname,    \* index of the current credential (key, nickname); 0 = none
    exhausted,   \* credentials marked by set_limit_exhausted
    pc,          \* position of the process
    request,     \* the last embed_query issued: <<caption, credential>>
    response,    \* how the last embed_query ended
    error,       \* the exception that ended the process, if any
    signalled,   \* credentials whose embed_query raised RateLimitError
    committed,   \* records committed by the running process, in order
    previous,    \* how the process before this one ended
    text,        \* input of DatasetWrap.clean
    cleaned,     \* clean(text)
    recleaned,   \* clean(clean(text))
    phase        \* position of the normalizer run

vars == <<source, db, staged, pending, idx, nickname, exhausted, pc, request,
          response, error, signalled, committed, previous,
          text, cleaned, recleaned, phase>>

loopVars == <<source, db, staged, pending, idx, nickname, exhausted, pc,
              request, response, error, signalled, committed, previous>>

cleanVars == <<text, cleaned, recleaned, phase>>

(***************************************************************************)
(* Bounds                                                                  *)
(***************************************************************************)
MaxLen == 4          \* longest input string of the normalizer runs
MaxCaptions == 3     \* most rows of the caption table
NumCreds == 3        \* lines of the credential file

(***************************************************************************)
(* Characters                                                              *)
(***************************************************************************)
Lower == {"a","b","c","d","e","f","g","h","i","j","k","l","m",
          "n","o","p","q","r","s","t","u","v","w","x","y","z"}
Upper == {"A","B","C","D","E","F","G","H","I","J","K","L","M",
          "N","O","P","Q","R","S","T","U","V","W","X","Y","Z"}
Digits == {"0","1","2","3","4","5","6","7","8","9"}

\* \w of the re module
WordChars == Lower \cup Upper \cup Digits \cup {"_"}

\* \s of the re module, and the characters str.strip() removes
Whitespace == {" ", "\t", "\n", "\r"}

\* the characters the normalizer runs draw their inputs from
Alphabet == {"A", "a", "n", " ", "\n", ".", "'"}

LowerOf == [c \in Upper |->
    CASE c = "A" -> "a" [] c = "B" -> "b" [] c = "C" -> "c" [] c = "D" -> "d"
      [] c = "E" -> "e" [] c = "F" -> "f" [] c = "G" -> "g" [] c = "H" -> "h"
      [] c = "I" -> "i" [] c = "J" -> "j" [] c = "K" -> "k" [] c = "L" -> "l"
      [] c = "M" -> "m" [] c = "N" -> "n" [] c = "O" -> "o" [] c = "P" -> "p"
      [] c = "Q" -> "q" [] c = "R" -> "r" [] c = "S" -> "s" [] c = "T" -> "t"
      [] c = "U" -> "u" [] c = "V" -> "v" [] c = "W" -> "w" [] c = "X" -> "x"
      [] c = "Y" -> "y" [] c = "Z" -> "z"]

STOP_WORDS == {
    <<"i">>, <<"m","e">>, <<"m","y">>, <<"m","y","s","e","l","f">>, <<"w","e">>,
    <<"o","u","r">>, <<"o","u","r","s">>, <<"o","u","r","s","e","l","v","e","s">>,
    <<"y","o","u">>, <<"y","o","u","'","r","e">>, <<"y","o","u","'","v","e">>,
    <<"y","o","u","'","l","l">>, <<"y","o","u","'","d">>, <<"y","o","u","r">>,
    <<"y","o","u","r","s">>, <<"y","o","u","r","s","e","l","f">>,
    <<"y","o","u","r","s","e","l","v","e","s">>, <<"h","e">>, <<"h","i","m">>, <<"h","i","s">>,
    <<"h","i","m","s","e","l","f">>, <<"s","h","e">>, <<"s","h","e","'","s">>, <<"h","e","r">>,
    <<"h","e","r","s">>, <<"h","e","r","s","e","l","f">>, <<"i","t">>, <<"i","t","'","s">>,
    <<"i","t","s">>, <<"i","t","s","e","l","f">>, <<"t","h","e","y">>, <<"t","h","e","m">>,
    <<"t","h","e","i","r">>, <<"t","h","e","i","r","s">>,
    <<"t","h","e","m","s","e","l","v","e","s">>, <<"w","h","a","t">>, <<"w","h","i","c","h">>,
    <<"w","h","o">>, <<"w","h","o","m">>, <<"t","h","i","s">>, <<"t","h","a","t">>,
    <<"t","h","a","t","'","l","l">>, <<"t","h","e","s","e">>, <<"t","h","o","s","e">>,
    <<"a","m">>, <<"i","s">>, <<"a","r","e">>, <<"w","a","s">>, <<"w","e","r","e">>,
    <<"b","e">>, <<"b","e","e","n">>, <<"b","e","i","n","g">>, <<"h","a","v","e">>,
    <<"h","a","s">>, <<"h","a","d">>, <<"h","a","v","i","n","g">>, <<"d","o">>,
    <<"d","o","e","s">>, <<"d","i","d">>, <<"d","o","i","n","g">>, <<"a">>, <<"a","n">>,
    <<"t","h","e">>, <<"a","n","d">>, <<"b","u","t">>, <<"i","f">>, <<"o","r">>,
    <<"b","e","c","a","u","s","e">>, <<"a","s">>, <<"u","n","t","i","l">>,
    <<"w","h","i","l","e">>, <<"o","f">>, <<"a","t">>, <<"b","y">>, <<"f","o","r">>,
    <<"w","i","t","h">>, <<"a","b","o","u","t">>, <<"a","g","a","i","n","s","t">>,
    <<"b","e","t","w","e","e","n">>, <<"i","n","t","o">>, <<"t","h","r","o","u","g","h">>,
    <<"d","u","r","i","n","g">>, <<"b","e","f","o","r","e">>, <<"a","f","t","e","r">>,
    <<"a","b","o","v","e">>, <<"b","e","l","o","w">>, <<"t","o">>, <<"f","r","o","m">>,
    <<"u","p">>, <<"d","o","w","n">>, <<"i","n">>, <<"o","u","t">>, <<"o","n">>,
    <<"o","f","f">>, <<"o","v","e","r">>, <<"u","n","d","e","r">>, <<"a","g","a","i","n">>,
    <<"f","u","r","t","h","e","r">>, <<"t","h","e","n">>, <<"o","n","c","e">>,
    <<"h","e","r","e">>, <<"t","h","e","r","e">>, <<"w","h","e","n">>, <<"w","h","e","r","e">>,
    <<"w","h","y">>, <<"h","o","w">>, <<"a","l","l">>, <<"a","n","y">>, <<"b","o","t","h">>,
    <<"e","a","c","h">>, <<"f","e","w">>, <<"m","o","r","e">>, <<"m","o","s","t">>,
    <<"o","t","h","e","r">>, <<"s","o","m","e">>, <<"s","u","c","h">>, <<"n","o">>,
    <<"n","o","r">>, <<"n","o","t">>, <<"o","n","l","y">>, <<"o","w","n">>, <<"s","a","m","e">>,
    <<"s","o">>, <<"t","h","a","n">>, <<"t","o","o">>, <<"v","e","r","y">>, <<"s">>, <<"t">>,
    <<"c","a","n">>, <<"w","i","l","l">>, <<"j","u","s","t">>, <<"d","o","n">>,
    <<"d","o","n","'","t">>, <<"s","h","o","u","l","d">>,
    <<"s","h","o","u","l","d","'","v","e">>, <<"n","o","w">>, <<"d">>, <<"l","l">>, <<"m">>,
    <<"o">>, <<"r","e">>, <<"v","e">>, <<"y">>, <<"a","i","n">>, <<"a","r","e","n">>,
    <<"a","r","e","n","'","t">>, <<"c","o","u","l","d","n">>,
    <<"c","o","u","l","d","n","'","t">>, <<"d","i","d","n">>, <<"d","i","d","n","'","t">>,
    <<"d","o","e","s","n">>, <<"d","o","e","s","n","'","t">>, <<"h","a","d","n">>,
    <<"h","a","d","n","'","t">>, <<"h","a","s","n">>, <<"h","a","s","n","'","t">>,
    <<"h","a","v","e","n">>, <<"h","a","v","e","n","'","t">>, <<"i","s","n">>,
    <<"i","s","n","'","t">>, <<"m","a">>, <<"m","i","g","h","t","n">>,
    <<"m","i","g","h","t","n","'","t">>, <<"m","u","s","t","n">>,
    <<"m","u","s","t","n","'","t">>, <<"n","e","e","d","n">>, <<"n","e","e","d","n","'","t">>,
    <<"s","h","a","n">>, <<"s","h","a","n","'","t">>, <<"s","h","o","u","l","d","n">>,
    <<"s","h","o","u","l","d","n","'","t">>, <<"w","a","s","n">>, <<"w","a","s","n","'","t">>,
    <<"w","e","r","e","n">>, <<"w","e","r","e","n","'","t">>, <<"w","o","n">>,
    <<"w","o","n","'","t">>, <<"w","o","u","l","d","n">>, <<"w","o","u","l","d","n","'","t">>
}

(***************************************************************************)
(* DatasetWrap.clean                                                       *)
(***************************************************************************)
\* str.lower()
lower(s) == [i \in 1..Len(s) |-> IF s[i] \in Upper THEN LowerOf[s[i]] ELSE s[i]]

RECURSIVE lstrip(_)
lstrip(s) ==
    IF Len(s) > 0 /\ s[1] \in Whitespace THEN lstrip(Tail(s)) ELSE s

RECURSIVE rstrip(_)
rstrip(s) ==
    IF Len(s) > 0 /\ s[Len(s)] \in Whitespace
    THEN rstrip(SubSeq(s, 1, Len(s) - 1))
    ELSE s

\* str.strip()
strip(s) == rstrip(lstrip(s))

\* str.split(" "): cut at every single space, empty words kept
RECURSIVE split(_)
split(s) ==
    IF \E i \in 1..Len(s) : s[i] = " "
    THEN LET i == CHOOSE j \in 1..Len(s) :
                      s[j] = " " /\ \A k \in 1..(j - 1) : s[k] # " "
         IN  <<SubSeq(s, 1, i - 1)>> \o split(SubSeq(s, i + 1, Len(s)))
    ELSE <<s>>

\* " ".join(words)
RECURSIVE join(_)
join(words) ==
    IF Len(words) = 0 THEN <<>>
    ELSE IF Len(words) = 1 THEN words[1]
    ELSE words[1] \o <<" ">> \o join(Tail(words))

\* filter(lambda word: word not in STOP_WORDS, words)
DropStopWords(words) == SelectSeq(words, LAMBDA word : word \notin STOP_WORDS)

\* re.sub(r'[^\w\s\']', ' ', text)
PunctuationToSpace(s) ==
    [i \in 1..Len(s) |->
        IF s[i] \in WordChars \cup Whitespace \cup {"'"} THEN s[i] ELSE " "]

\* re.sub(r'[\s\n]+', ' ', text)
RECURSIVE CollapseWhitespace(_)
CollapseWhitespace(s) ==
    IF Len(s) = 0 THEN <<>>
    ELSE IF s[1] \in Whitespace
         THEN IF Len(s) > 1 /\ s[2] \in Whitespace
              THEN CollapseWhitespace(Tail(s))
              ELSE <<" ">> \o CollapseWhitespace(Tail(s))
         ELSE <<s[1]>> \o CollapseWhitespace(Tail(s))

clean(t) ==
    LET t1 == lower(strip(t))
        t2 == join(DropStopWords(split(t1)))
        t3 == PunctuationToSpace(t2)
        t4 == CollapseWhitespace(t3)
    IN  strip(t4)

(***************************************************************************)
(* Normalizer runs: the __main__ block prints clean(text) for sample       *)
(* texts; caption_loader applies clean to every caption, and a caption     *)
(* that is already normalized is normalized again when it comes back.      *)
(***************************************************************************)
Strings == UNION {[1..n -> Alphabet] : n \in 0..MaxLen}

Creds == 1..NumCreds

NoRequest == <<>>

NoProcess == [pc |-> "none", source |-> <<>>, pending |-> <<>>, idx |-> 1]

LoopIdle ==
    /\ source = <<>>
    /\ db = <<>>
    /\ staged = <<>>
    /\ pending = <<>>
    /\ idx = 1
    /\ nickname = 0
    /\ exhausted = {}
    /\ pc = "boot"
    /\ request = NoRequest
    /\ response = "none"
    /\ error = "none"
    /\ signalled = {}
    /\ committed = <<>>
    /\ previous = NoProcess

CleanIdle ==
    /\ text = <<>>
    /\ cleaned = <<>>
    /\ recleaned = <<>>
    /\ phase = "idle"

InitClean ==
    /\ LoopIdle
    /\ text \in Strings
    /\ cleaned = <<>>
    /\ recleaned = <<>>
    /\ phase = "input"

Clean ==
    /\ phase = "input"
    /\ cleaned' = clean(text)
    /\ phase' = "cleaned"
    /\ UNCHANGED <<text, recleaned>>
    /\ UNCHANGED loopVars

CleanAgain ==
    /\ phase = "cleaned"
    /\ recleaned' = clean(cleaned)
    /\ phase' = "recleaned"
    /\ UNCHANGED <<text, cleaned>>
    /\ UNCHANGED loopVars

NextClean == Clean \/ CleanAgain

SpecClean == InitClean /\ [][NextClean]_vars

(***************************************************************************)
(* Embedding database (OpenAITextEmbeddingDB) and credential manager       *)
(* (OpenAICredentialManager) of langchain_openai_tools                     *)
(***************************************************************************)
\* emb_db.is_available(txt): a committed record has this text
is_available(database, txt) == \E i \in 1..Len(database) : database[i] = txt

\* emb_db.append(caption, embedding): stage a record in the write buffer
append(buffer, caption) == Append(buffer, caption)

\* emb_db.commit(): persist the staged records
commit(database, buffer) == database \o buffer

\* cred_man.is_limit_exhausted(nickname)
is_limit_exhausted(marked, n) == n \in marked

\* cred_man.set_limit_exhausted(nickname)
set_limit_exhausted(marked, n) == marked \cup {n}

\* next(cm): the next credential after cur in the cyclic file order that is
\* not marked exhausted; 0 when there is none and the iterator raises
NextCredential(cur, marked) ==
    LET order == [k \in 1..NumCreds |-> ((cur + k - 1) % NumCreds) + 1]
        usable == {k \in 1..NumCreds : order[k] \notin marked}
    IN  IF usable = {} THEN 0
        ELSE order[CHOOSE k \in usable : \A j \in usable : k <= j]

(***************************************************************************)
(* Caption source: the 'caption' column of the SQLite table                *)
(***************************************************************************)
RawCaptions == {
    <<"A"," ","k","n","i","f","e">>,
    <<"k","n","i","f","e",".">>,
    <<"a"," ","b","a","g">>,
    <<"k","n","i","f","e"," ","b","a","g">> }

Sources == UNION {[1..n -> RawCaptions] : n \in 0..MaxCaptions}

\* pandas Series.unique(): distinct values in order of first appearance
RECURSIVE unique(_)
unique(s) ==
    IF Len(s) = 0 THEN <<>>
    ELSE LET r == unique(SubSeq(s, 1, Len(s) - 1))
         IN  IF \E i \in 1..Len(r) : r[i] = s[Len(s)]
             THEN r
             ELSE Append(r, s[Len(s)])

caption_loader_NoUnique(captions, database) ==
    SelectSeq([i \in 1..Len(captions) |-> clean(captions[i])],
              LAMBDA txt : ~is_available(database, txt))

caption_loader_NoCacheFilter(captions, database) ==
    unique([i \in 1..Len(captions) |-> clean(captions[i])])

caption_loader(captions, database) ==
    LET unique_captions == unique([i \in 1..Len(captions) |-> clean(captions[i])])
    IN  SelectSeq(unique_captions, LAMBDA txt : ~is_available(database, txt))

(***************************************************************************)
(* generate_openai_embeddings                                              *)
(***************************************************************************)
Running == {"loop", "inflight", "staged"}
Terminal == {"done", "fatal", "crashed"}

\* a process starts: open the database, compute the pending captions, load
\* the credentials, take the first one and enter the for loop.
\* caption_loader() is called twice (for OpenAITextLoader and for the for
\* loop) against the same table and database; the loop iterates the second
\* result, which equals the first.
Launch(captions) ==
    /\ source' = captions
    /\ pending' = caption_loader(captions, db)
    /\ staged' = <<>>
    /\ exhausted' = {}
    /\ nickname' = NextCredential(0, {})
    /\ idx' = 1
    /\ pc' = IF Len(pending') = 0 THEN "done" ELSE "loop"
    /\ request' = NoRequest
    /\ response' = "none"
    /\ error' = "none"
    /\ signalled' = {}
    /\ committed' = <<>>
    /\ UNCHANGED db
    /\ UNCHANGED cleanVars

Start ==
    /\ pc = "boot"
    /\ \E captions \in Sources : Launch(captions)
    /\ previous' = NoProcess

\* the table as a later process finds it: unchanged, or with a row added
LaterSources ==
    {source} \cup
    {Append(source, c) : c \in {r \in RawCaptions : Len(source) < MaxCaptions}}

\* the script is run again against the same database file
Restart ==
    /\ pc \in Terminal
    /\ \E captions \in LaterSources : Launch(captions)
    /\ previous' = [pc |-> pc, source |-> source, pending |-> pending, idx |-> idx]

\* fault variants of the except clause
RateLimitHandler_SkipsCaption ==
    /\ exhausted' = set_limit_exhausted(exhausted, nickname)
    /\ LET n == NextCredential(nickname, exhausted')
       IN  IF n = 0
           THEN /\ pc' = "fatal"
                /\ error' = "StopIteration"
                /\ UNCHANGED <<nickname, idx>>
           ELSE /\ nickname' = n
                /\ idx' = idx + 1
                /\ pc' = IF idx + 1 > Len(pending) THEN "done" ELSE "loop"
                /\ UNCHANGED error

RateLimitHandler_NoMark ==
    /\ exhausted' = exhausted
    /\ LET n == NextCredential(nickname, exhausted')
       IN  IF n = 0
           THEN /\ pc' = "fatal"
                /\ error' = "StopIteration"
                /\ UNCHANGED nickname
           ELSE /\ nickname' = n
                /\ pc' = "loop"
                /\ UNCHANGED error
    /\ UNCHANGED idx

RateLimitHandler_MarksAfterRotating ==
    LET n == NextCredential(nickname, exhausted)
    IN  IF n = 0
        THEN /\ pc' = "fatal"
             /\ error' = "StopIteration"
             /\ UNCHANGED <<nickname, exhausted, idx>>
        ELSE /\ nickname' = n
             /\ exhausted' = set_limit_exhausted(exhausted, n)
             /\ pc' = "loop"
             /\ UNCHANGED <<error, idx>>

RateLimitHandler_SwallowsStopIteration ==
    /\ exhausted' = set_limit_exhausted(exhausted, nickname)
    /\ LET n == NextCredential(nickname, exhausted')
       IN  nickname' = IF n = 0 THEN nickname ELSE n
    /\ pc' = "loop"
    /\ UNCHANGED <<error, idx>>

\* except RateLimitError: mark the current credential, take the next one and
\* go round the while loop again; StopIteration from next(cm) is not caught
RateLimitHandler ==
    /\ exhausted' = set_limit_exhausted(exhausted, nickname)
    /\ LET n == NextCredential(nickname, exhausted')
       IN  IF n = 0
           THEN /\ pc' = "fatal"
                /\ error' = "StopIteration"
                /\ UNCHANGED nickname
           ELSE /\ nickname' = n
                /\ pc' = "loop"
                /\ UNCHANGED error
    /\ UNCHANGED idx

\* top of the while loop: the guard on the current credential, then the
\* embed_query call for the current caption
IssueRequest ==
    /\ pc = "loop"
    /\ IF is_limit_exhausted(exhausted, nickname)
       THEN /\ RateLimitHandler
            /\ UNCHANGED request
       ELSE /\ request' = <<pending[idx], nickname>>
            /\ pc' = "inflight"
            /\ UNCHANGED <<exhausted, nickname, idx, error>>
    /\ UNCHANGED <<source, db, staged, pending, response, signalled, committed>>
    /\ UNCHANGED <<previous, cleanVars>>

\* embed_query returns the embedding; emb_db.append stages it
EmbedReturns ==
    /\ pc = "inflight"
    /\ response' = "ok"
    /\ staged' = append(staged, pending[idx])
    /\ pc' = "staged"
    /\ UNCHANGED <<source, db, pending, idx, nickname, exhausted, request,
                   error, signalled, committed>>
    /\ UNCHANGED <<previous, cleanVars>>

Commit_NoBreak ==
    /\ pc = "staged"
    /\ db' = commit(db, staged)
    /\ committed' = committed \o staged
    /\ staged' = <<>>
    /\ pc' = "loop"
    /\ UNCHANGED <<source, pending, idx, nickname, exhausted, request, response,
                   error, signalled>>
    /\ UNCHANGED <<previous, cleanVars>>

Commit_RotatesOnSuccess ==
    /\ pc = "staged"
    /\ db' = commit(db, staged)
    /\ committed' = committed \o staged
    /\ staged' = <<>>
    /\ idx' = idx + 1
    /\ nickname' = LET n == NextCredential(nickname, exhausted)
                   IN  IF n = 0 THEN nickname ELSE n
    /\ pc' = IF idx + 1 > Len(pending) THEN "done" ELSE "loop"
    /\ UNCHANGED <<source, pending, exhausted, request, response,
                   error, signalled>>
    /\ UNCHANGED <<previous, cleanVars>>

Commit_Deferred ==
    /\ pc = "staged"
    /\ idx' = idx + 1
    /\ pc' = IF idx + 1 > Len(pending) THEN "done" ELSE "loop"
    /\ IF idx + 1 > Len(pending)
       THEN /\ db' = commit(db, staged)
            /\ committed' = committed \o staged
            /\ staged' = <<>>
       ELSE UNCHANGED <<db, committed, staged>>
    /\ UNCHANGED <<source, pending, nickname, exhausted, request, response,
                   error, signalled>>
    /\ UNCHANGED <<previous, cleanVars>>

\* emb_db.commit(); break; the for loop takes the next caption or ends
Commit ==
    /\ pc = "staged"
    /\ db' = commit(db, staged)
    /\ committed' = committed \o staged
    /\ staged' = <<>>
    /\ idx' = idx + 1
    /\ pc' = IF idx + 1 > Len(pending) THEN "done" ELSE "loop"
    /\ UNCHANGED <<source, pending, nickname, exhausted, request, response,
                   error, signalled>>
    /\ UNCHANGED <<previous, cleanVars>>

\* embed_query raises RateLimitError
EmbedRateLimited ==
    /\ pc = "inflight"
    /\ response' = "ratelimit"
    /\ signalled' = signalled \cup {request[2]}
    /\ RateLimitHandler
    /\ UNCHANGED <<source, db, staged, pending, request, committed>>
    /\ UNCHANGED <<previous, cleanVars>>

EmbedFails_CaughtAsRateLimit ==
    /\ pc = "inflight"
    /\ response' = "error"
    /\ RateLimitHandler
    /\ UNCHANGED <<source, db, staged, pending, request, signalled, committed>>
    /\ UNCHANGED <<previous, cleanVars>>

\* embed_query raises another exception: no except clause matches and the
\* exception leaves generate_openai_embeddings
EmbedFails ==
    /\ pc = "inflight"
    /\ response' = "error"
    /\ pc' = "fatal"
    /\ error' = "other"
    /\ UNCHANGED <<source, db, staged, pending, idx, nickname, exhausted,
                   request, signalled, committed>>
    /\ UNCHANGED <<previous, cleanVars>>

\* the process is killed: what was staged but not committed is lost
Crash ==
    /\ pc \in Running
    /\ pc' = "crashed"
    /\ staged' = <<>>
    /\ UNCHANGED <<source, db, pending, idx, nickname, exhausted, request,
                   response, error, signalled, committed>>
    /\ UNCHANGED <<previous, cleanVars>>

Init == LoopIdle /\ CleanIdle

Next ==
    \/ Start
    \/ IssueRequest
    \/ EmbedReturns
    \/ Commit
    \/ EmbedRateLimited
    \/ EmbedFails
    \/ Crash
    \/ Restart

Spec == Init /\ [][Next]_vars

\* one process, never killed, in which every call returns
NextRun ==
    \/ Start
    \/ IssueRequest
    \/ EmbedReturns
    \/ Commit
    \/ EmbedRateLimited
    \/ EmbedFails

FairSpec == Init /\ [][NextRun]_vars /\ WF_vars(NextRun)

(***************************************************************************)
(* Properties                                                              *)
(***************************************************************************)
Normalized(captions) == [i \in 1..Len(captions) |-> clean(captions[i])]

Elems(s) == {s[i] : i \in 1..Len(s)}

NoDuplicates(s) == \A i, j \in 1..Len(s) : i # j => s[i] # s[j]

FirstAt(s, t) == CHOOSE i \in 1..Len(s) : s[i] = t /\ \A j \in 1..(i - 1) : s[j] # t

\* the database as the running process found it
dbAtLaunch == SubSeq(db, 1, Len(db) - Len(committed))

\* an embed_query of the running process ends with RateLimitError
RateLimitStep ==
    /\ pc = "inflight"
    /\ response' = "ratelimit"
    /\ pc' \in {"loop", "fatal", "done"}

\* C1: a rate-limit signal marks the credential of the request exhausted and
\* leaves the caption, the pending array and the database as they are; the
\* loop goes on with another, unmarked credential; the request that follows
\* a rate-limit signal is for the same caption; and the loop moves to the
\* next caption only by committing the current one after a successful embed.
C1_RetrySameCaption ==
    [][ /\ RateLimitStep =>
              /\ request[2] \in exhausted'
              /\ idx' = idx
              /\ pending' = pending
              /\ db' = db
              /\ pc' \in {"loop", "fatal"}
              /\ pc' = "loop" =>
                    (nickname' # request[2] /\ nickname' \notin exhausted')
        /\ (pc = "loop" /\ pc' = "inflight" /\ response = "ratelimit") =>
              (request' = <<request[1], nickname>> /\ request'[1] = pending[idx])
        /\ (pc \in Running /\ pc' \in Running \cup {"done"} /\ idx' # idx) =>
              /\ idx' = idx + 1
              /\ response = "ok"
              /\ db' = Append(db, pending[idx])
      ]_vars

\* the second caption was rate-limited and is being requested again with
\* another credential
C1_Witness ==
    /\ pc = "inflight"
    /\ response = "ratelimit"
    /\ idx = 2
    /\ Len(committed) = 1
    /\ request = <<pending[2], nickname>>
    /\ signalled # {}
    /\ nickname \notin signalled

\* C2: once every credential is marked exhausted the process has stopped with
\* the error next(cm) raised, and every run of the loop ends, successfully
\* or fatally.
C2_ExhaustionIsFatal ==
    /\ [](exhausted = Creds => (pc = "fatal" /\ error = "StopIteration"))
    /\ <>(pc \in {"done", "fatal"})

C2_Witness ==
    /\ pc = "fatal"
    /\ error = "StopIteration"
    /\ exhausted = Creds
    /\ idx <= Len(pending)
    /\ ~is_available(db, pending[idx])

\* C3: a process started after one that crashed or aborted, with the caption
\* table unchanged, has as pending array exactly the captions the earlier
\* process had not committed, in the same order.
C3_Resumable ==
    (previous.pc \in {"crashed", "fatal"} /\ previous.source = source) =>
        pending = SubSeq(previous.pending, previous.idx, Len(previous.pending))

\* the earlier process had [a, b, c] pending, committed a and was killed
C3_Witness ==
    /\ previous.pc = "crashed"
    /\ previous.source = source
    /\ Len(previous.pending) = 3
    /\ previous.idx = 2
    /\ pending = <<previous.pending[2], previous.pending[3]>>
    /\ is_available(db, previous.pending[1])
    /\ pc = "loop"

\* C4: the pending array holds each distinct normalized caption that was not
\* in the database at launch exactly once, nothing else, in the order of
\* first occurrence in the caption table.
C4_PendingSet ==
    pc # "boot" =>
        LET norm == Normalized(source)
        IN  /\ NoDuplicates(pending)
            /\ Elems(pending) = {t \in Elems(norm) : ~is_available(dbAtLaunch, t)}
            /\ \A i, j \in 1..Len(pending) :
                  i < j => FirstAt(norm, pending[i]) < FirstAt(norm, pending[j])

\* two different raw captions with the same normalized form give one pending
\* entry, and a caption already in the database is left out
C4_Witness ==
    /\ pc = "loop"
    /\ committed = <<>>
    /\ Len(source) = 3
    /\ Len(db) = 1
    /\ Len(pending) = 1
    /\ \E i, j \in 1..Len(source) :
          /\ source[i] # source[j]
          /\ clean(source[i]) = pending[1]
          /\ clean(source[j]) = pending[1]
    /\ \E i \in 1..Len(source) : clean(source[i]) = db[1]

\* C5: clean is idempotent: clean(clean(s)) = clean(s).
C5_CleanIdempotent == phase = "recleaned" => recleaned = cleaned

\* C6: an embed_query that fails with another error ends the process with
\* that error and changes nothing else: no credential is marked, the
\* credential and the caption stay, nothing is staged or committed; after
\* the abort the database is left as it is.
C6_OtherErrorIsFatal ==
    [][ /\ (pc = "inflight" /\ response' = "error") =>
              /\ pc' = "fatal"
              /\ error' = "other"
              /\ exhausted' = exhausted
              /\ signalled' = signalled
              /\ nickname' = nickname
              /\ idx' = idx
              /\ db' = db
              /\ staged' = staged
              /\ request' = request
        /\ pc = "fatal" => (db' = db /\ request' = NoRequest)
      ]_vars

C6_Witness ==
    /\ pc = "fatal"
    /\ error = "other"
    /\ response = "error"
    /\ Len(committed) >= 1
    /\ \A i \in 1..Len(committed) : is_available(db, committed[i])
    /\ request = <<pending[idx], nickname>>
    /\ nickname \notin exhausted

\* C7: the loop starts with the first credential of the file, and the current
\* credential is always the first one in file order that is not marked
\* exhausted: those before it are marked, it and those after it are not.
\* Within a process a mark is never removed.
C7_RotationOrder ==
    /\ [](pc \in Running => (nickname \in Creds /\ exhausted = 1..(nickname - 1)))
    /\ [][(pc \in Running /\ pc' \in Running) =>
              (exhausted \subseteq exhausted' /\ nickname' >= nickname)]_vars
    /\ [][(pc \in {"boot"} \cup Terminal) =>
              (pc' \in {"loop", "done"} /\ nickname' = 1)]_vars

C7_Witness ==
    /\ pc = "inflight"
    /\ nickname = 3
    /\ exhausted = {1, 2}
    /\ signalled = {1, 2}

\* C8: in a run where no embed_query fails with another error and some
\* credential never gets a rate-limit signal, the loop ends successfully
\* with every pending caption committed.
C8_Liveness ==
    ([](response # "error") /\ \E c \in Creds : [](c \notin signalled))
        => <>(pc = "done" /\ \A i \in 1..Len(pending) : is_available(db, pending[i]))

C8_Witness ==
    /\ pc = "done"
    /\ Len(pending) >= 2
    /\ committed = pending
    /\ signalled # {}
    /\ signalled # Creds
    /\ error = "none"

\* C9: the database never holds two records with the same normalized text.
C9_CacheUnique == NoDuplicates(db)

\* a database filled by more than one process
C9_Witness ==
    /\ Len(db) = 3
    /\ Len(committed) = 1
    /\ previous.pc \in Terminal

\* C10: an embed_query in flight uses the current credential, which is not
\* marked exhausted and has had no rate-limit signal in this process.
C10_NoExhaustedCredentialUsed ==
    pc = "inflight" =>
        /\ request[2] = nickname
        /\ ~is_limit_exhausted(exhausted, nickname)
        /\ nickname \notin signalled

C10_Witness ==
    /\ pc = "inflight"
    /\ signalled # {}
    /\ exhausted = signalled
    /\ request[2] \notin signalled

\* C11: a successful embed (the return of embed_query, then append, commit
\* and the step to the next caption) leaves the current credential and the
\* marks of all credentials as they are, and two consecutive requests of a
\* process use different credentials only if the first one ended with a
\* rate-limit signal.
C11_SuccessKeepsCredential ==
    [][ /\ (pc = "inflight" /\ pc' = "staged") =>
              (nickname' = nickname /\ exhausted' = exhausted)
        /\ (pc = "staged" /\ pc' \in {"loop", "done"}) =>
              (nickname' = nickname /\ exhausted' = exhausted)
        /\ (pc = "loop" /\ pc' = "inflight" /\ request # NoRequest
              /\ request'[2] # request[2]) => response = "ratelimit"
      ]_vars

\* the second caption is requested with the credential that served the first
C11_Witness ==
    /\ pc = "inflight"
    /\ response = "ok"
    /\ idx = 2
    /\ committed = <<pending[1]>>
    /\ request = <<pending[2], nickname>>
    /\ nickname = 2
    /\ exhausted = {1}

\* C12: while the request for the k-th pending caption is in flight, the
\* records this process committed are the first k-1 pending captions, once
\* each and in order, they are the last records of the database, and
\* nothing is staged; at every point the committed records are a prefix of
\* the pending array and at most the current caption is staged, so a kill
\* loses no more than that one.
C12_CommitsInOrder ==
    /\ pc = "inflight" =>
          /\ request[1] = pending[idx]
          /\ committed = SubSeq(pending, 1, idx - 1)
          /\ staged = <<>>
    /\ pc # "boot" =>
          /\ Len(committed) <= Len(pending)
          /\ committed = SubSeq(pending, 1, Len(committed))
          /\ NoDuplicates(committed)
          /\ Len(committed) <= Len(db)
          /\ SubSeq(db, Len(db) - Len(committed) + 1, Len(db)) = committed
          /\ \/ staged = <<>>
             \/ /\ Len(committed) < Len(pending)
                /\ staged = <<pending[Len(committed) + 1]>>

\* the third pending caption is in flight after two commits
C12_Witness ==
    /\ pc = "inflight"
    /\ idx = 3
    /\ request[1] = pending[3]
    /\ Len(committed) = 2
    /\ Len(db) >= 2

\* str.split(): cut at runs of whitespace, no empty words
RECURSIVE splitWhitespace(_)
splitWhitespace(s) ==
    LET t == lstrip(s)
    IN  IF Len(t) = 0 THEN <<>>
        ELSE IF \E i \in 1..Len(t) : t[i] \in Whitespace
             THEN LET i == CHOOSE j \in 1..Len(t) :
                              /\ t[j] \in Whitespace
                              /\ \A k \in 1..(j - 1) : t[k] \notin Whitespace
                  IN  <<SubSeq(t, 1, i - 1)>>
                          \o splitWhitespace(SubSeq(t, i + 1, Len(t)))
             ELSE <<t>>

\* the normal form with the words taken between whitespace of any kind
cleanOnWhitespace(t) ==
    strip(CollapseWhitespace(PunctuationToSpace(
        join(DropStopWords(splitWhitespace(lower(strip(t))))))))

\* C13: clean takes the words of the trimmed, lowercased text between
\* whitespace of any kind and drops those in STOP_WORDS, so its result is
\* the one obtained by tokenizing on whitespace.
C13_StopWordsDropped == phase \in {"cleaned", "recleaned"} => cleaned = cleanOnWhitespace(text)

====
